---- MODULE Spec2Model ----
(***************************************************************************)
(* The StreamAlert command line runner (stream_alert_cli/runner.py) as a   *)
(* state machine: one process handling one operator command, driving the   *)
(* external terraform tool through run_command, gated by continue_prompt,  *)
(* and keeping the Lambda version pointers of the CONFIG object.           *)
(***************************************************************************)
EXTENDS Integers, Sequences, FiniteSets, TLC

VARIABLES
    options,    \* the parsed command line handed to cli_runner
    CONFIG,     \* the in-memory configuration object (module global, line 38)
    disk,       \* the durable configuration file CONFIG was loaded from
    pc,         \* the position of the process in runner.py
    stack,      \* the return positions of the calls in progress
    tf,         \* the locals of the current (or last) tf_runner call
    calltrace,  \* what the current (or last) tf_runner call has done, in order
    log,        \* what the process has done outside of tf_runner, in order
    files,      \* the terraform/<cluster>.tf files written by this process
    exc,        \* the uncaught exception that ended the process, or "none"
    calls       \* number of rollback() calls made (repeated-call specification)

vars == <<options, CONFIG, disk, pc, stack, tf, calltrace, log, files, exc, calls>>

----------------------------------------------------------------------------
(* Bounds of the model *)

MaxClusters == 2
MaxVers == 3
MaxInvalid == 1
MaxCalls == 2

----------------------------------------------------------------------------
(* Helpers on sequences *)

Range(s) == {s[i] : i \in DOMAIN s}

RECURSIVE Remove(_, _)
\* list.remove(x): drops the first occurrence of x
Remove(s, x) ==
    IF s = <<>> THEN <<>>
    ELSE IF Head(s) = x THEN Tail(s)
    ELSE <<Head(s)>> \o Remove(Tail(s), x)

\* s[i] = x, on a Python list
SetItem(s, i, x) == [s EXCEPT ![i + 1] = x]

----------------------------------------------------------------------------
(* Version pointers and the configuration object *)

LATEST == [kind |-> "latest", n |-> 0]      \* the string '$LATEST'
IntPtr(n) == [kind |-> "int", n |-> n]      \* the number n
StrPtr(n) == [kind |-> "str", n |-> n]      \* the decimal string of n

\* int(current_vers): a number is itself, a decimal string is parsed
int(v) == v.n

Ptrs == {LATEST} \cup {IntPtr(n) : n \in 1..MaxVers} \cup {StrPtr(n) : n \in 1..MaxVers}

ClusterNames == {"prod", "staging", "main"}

\* CONFIG['clusters'].keys(): the clusters, in the order the dict yields them
ClusterSeqs ==
    {s \in UNION {[1..n -> ClusterNames] : n \in 0..MaxClusters} :
        \A i, j \in DOMAIN s : s[i] = s[j] => i = j}

\* CLIConfig.filename
filename == "variables.json"

FunctionKinds == <<"rule_processor", "alert_processor">>

\* '{}_versions'.format(lambda_function), the key each function's pointers live under
FormattedKey(lambda_function) == lambda_function \o "_versions"

\* the key rollback() indexes CONFIG with: the template string itself
VersionsKey(lambda_function) == "{}_versions"

\* CONFIG[key]: CLIConfig.__getitem__, a plain lookup that raises KeyError
HasKey(cfg, key) == key \in DOMAIN cfg.versions \cup DOMAIN cfg.settings
GetItem(cfg, key) ==
    IF key \in DOMAIN cfg.versions THEN cfg.versions[key] ELSE cfg.settings[key]

\* the same iteration with the floor test off by one ('>= 1' for '> 1')
RollbackOneBad(cfg, cluster, lambda_function) ==
    LET key == VersionsKey(lambda_function) IN
    IF ~HasKey(cfg, key) \/ cluster \notin DOMAIN GetItem(cfg, key)
    THEN [config |-> cfg, raised |-> "KeyError"]
    ELSE LET current_vers == GetItem(cfg, key)[cluster] IN
         IF current_vers # LATEST /\ int(current_vers) >= 1
         THEN [config |-> [cfg EXCEPT !.versions[key][cluster] =
                                         IntPtr(int(current_vers) - 1)],
               raised |-> "none"]
         ELSE [config |-> cfg, raised |-> "none"]
\* lines 273-278: one iteration of the inner loop of rollback()
RollbackOne(cfg, cluster, lambda_function) ==
    LET key == VersionsKey(lambda_function) IN
    IF ~HasKey(cfg, key) \/ cluster \notin DOMAIN GetItem(cfg, key)
    THEN [config |-> cfg, raised |-> "KeyError"]
    ELSE LET current_vers == GetItem(cfg, key)[cluster] IN
         IF current_vers # LATEST /\ int(current_vers) > 1
         THEN [config |-> [cfg EXCEPT !.versions[key][cluster] =
                                         IntPtr(int(current_vers) - 1)],
               raised |-> "none"]
         ELSE [config |-> cfg, raised |-> "none"]

RECURSIVE RollbackLoop(_, _, _)
\* lines 271-272: for cluster in clusters: for lambda_function in (...)
\* i counts the iterations done, over clusters x FunctionKinds
RollbackLoop(cfg, clusters, i) ==
    IF i >= Len(clusters) * Len(FunctionKinds)
    THEN [config |-> cfg, raised |-> "none"]
    ELSE LET cluster == clusters[(i \div Len(FunctionKinds)) + 1]
             lambda_function == FunctionKinds[(i % Len(FunctionKinds)) + 1]
             r == RollbackOne(cfg, cluster, lambda_function)
         IN IF r.raised # "none" THEN r
            ELSE RollbackLoop(r.config, clusters, i + 1)

\* rollback(), lines 263-278
rollback(cfg) == RollbackLoop(cfg, cfg.clusters, 0)

----------------------------------------------------------------------------
(* Configuration files the process may be started on *)

UniformTable(cs, p) == [c \in Range(cs) |-> p]

\* one table per function kind
BaseTables(cs, rule, alert) ==
    [k \in {FormattedKey("rule_processor"), FormattedKey("alert_processor")} |->
        IF k = FormattedKey("rule_processor")
        THEN UniformTable(cs, rule) ELSE UniformTable(cs, alert)]

\* the same, with a table t under the literal key '{}_versions'
WithTemplateKey(base, t) ==
    [k \in DOMAIN base \cup {"{}_versions"} |-> IF k \in DOMAIN base THEN base[k] ELSE t]

\* CONFIG['account'] and CONFIG['terraform'], the same in every file of the model
account == [region |-> "us-east-1", prefix |-> "acme", kms_key_alias |-> "stream_alert_secrets"]
terraform == [tfstate_s3_key |-> "stream_alert_state/terraform.tfstate"]

\* the tables status() reads, and a row of each
SettingKeys == {"lambda_settings", "lambda_function_prod_versions", "kinesis_settings"}
SettingRow(key) ==
    IF key = "lambda_settings" THEN <<"60", "128">>
    ELSE IF key = "kinesis_settings" THEN <<"1", "24">>
    ELSE <<"$LATEST">>

\* the tables of keys, each with a row for every cluster
SettingTables(cs, keys) == [k \in keys |-> [c \in Range(cs) |-> SettingRow(k)]]

ConfigOf(cs, versions) ==
    [clusters |-> cs, versions |-> versions, settings |-> SettingTables(cs, {}),
     account |-> account, terraform |-> terraform]

\* the file cfg with the tables of keys added
WithSettings(cfg, keys) == [cfg EXCEPT !.settings = SettingTables(cfg.clusters, keys)]

\* a file with the clusters cs, every cluster's rule and alert pointer p and,
\* when has_template, the table t under '{}_versions'
ConfigFile(cs, p, has_template, t) ==
    ConfigOf(cs, IF has_template THEN WithTemplateKey(BaseTables(cs, p, p), t)
                 ELSE BaseTables(cs, p, p))

----------------------------------------------------------------------------
(* Command lines *)

NoTarget == ""     \* options.target when --target is not given
None == "None"     \* Python's None, as the action of tf_runner

Options ==
    {[command |-> "lambda", subcommand |-> "deploy", target |-> NoTarget, processor |-> p]
        : p \in {"rule", "alert", "all", "bogus"}}
    \cup {[command |-> "lambda", subcommand |-> s, target |-> NoTarget, processor |-> ""]
        : s \in {"rollback", "test"}}
    \cup {[command |-> "terraform", subcommand |-> "build", target |-> t, processor |-> ""]
        : t \in {NoTarget, "kinesis"}}
    \cup {[command |-> "terraform", subcommand |-> s, target |-> NoTarget, processor |-> ""]
        : s \in {"generate", "init", "destroy", "status"}}

\* the configuration files a command is run on: 'lambda rollback' on files whose
\* clusters are all at one version, every other command on a fresh file (every
\* pointer '$LATEST'); 'terraform status' on files with any of the tables it reads
IsConfigFile(opt, cfg) ==
    \E cs \in ClusterSeqs, p \in Ptrs, has_template \in BOOLEAN, q \in Ptrs,
       keys \in SUBSET SettingKeys :
        /\ opt.subcommand # "rollback" => p = LATEST /\ ~has_template
        /\ ~has_template => q = LATEST
        /\ opt.subcommand # "status" => keys = {}
        /\ cfg = WithSettings(ConfigFile(cs, p, has_template, UniformTable(cs, q)), keys)

----------------------------------------------------------------------------
(* Events *)

\* one external process run through run_command, and how it ended
Cmd(args, ok) == [ev |-> "run_command", args |-> args, ok |-> ok]
\* anything else the process did
Ev(name, args) == [ev |-> name, args |-> args, ok |-> TRUE]

\* CLIHelpers.run_command: True on exit status 0, False otherwise
RunOutcomes == BOOLEAN

IsCmd(e, verb) == e.ev = "run_command" /\ Len(e.args) >= 2 /\ e.args[2] = verb

----------------------------------------------------------------------------
(* tf_runner: the plan / confirm / apply cycle *)

\* lines 167-182: the command refresh_tf_state() runs
remote_state_opts(cfg) ==
    <<"terraform", "remote", "config", "-backend=s3",
      "-backend-config=bucket=" \o cfg.account.prefix \o ".streamalert.terraform.state",
      "-backend-config=key=" \o cfg.terraform.tfstate_s3_key,
      "-backend-config=region=" \o cfg.account.region,
      "-backend-config=kms_key_id=alias/" \o cfg.account.kms_key_alias,
      "-backend-config=encrypt=true">>

\* line 210
tf_targets(targets) == [i \in DOMAIN targets |-> "-target=" \o targets[i]]

\* lines 209-213: the plan command
PlanCommand(targets, action) ==
    <<"terraform", "plan">> \o <<"-var-file=../" \o filename>> \o tf_targets(targets)
        \o (IF action = "destroy" THEN <<"-destroy">> ELSE <<>>)

tf_action_index == 1

\* 'elif action:', line 231: None and the empty string are false
Truthy(action) == action \notin {None, ""}

\* the same, with the '-destroy' flag of the plan left in the destroy command
MutateCommandBad(tf_command, action) ==
    IF Truthy(action)
    THEN SetItem(tf_command, tf_action_index, action)
    ELSE SetItem(tf_command, tf_action_index, "apply")
\* lines 226-236: the plan command turned into the command that changes things
MutateCommand(tf_command, action) ==
    IF action = "destroy"
    THEN Remove(SetItem(tf_command, tf_action_index, action), "-destroy")
    ELSE IF Truthy(action)
    THEN SetItem(tf_command, tf_action_index, action)
    ELSE SetItem(tf_command, tf_action_index, "apply")

\* a continue_prompt that also takes 'Yes' as an answer
required_responsesBad == {"yes", "no", "Yes"}
\* line 155
required_responses == {"yes", "no"}
\* what the operator may type at the prompt
Responses == required_responses \cup {"", "y", "Yes", "NO"}

\* a continue_prompt that returns True for any response that ends its loop
PromptResultBad(response) == response \in required_responses
\* lines 159-161: what continue_prompt returns for the response that ended its loop
PromptResult(response) == response = "yes"

\* a tf_runner that prompts whatever the plan command returned
PromptsAfterPlanBad(ok) == TRUE
\* line 222: 'run_command(tf_command) and continue_prompt()' prompts only after a
\* plan that succeeded
PromptsAfterPlan(ok) == ok

\* a tf_runner that configures the remote state whatever refresh_state is
RefreshesStateBad(kwargs) == TRUE
\* line 215: the remote state is configured when refresh_state is set
RefreshesState(kwargs) == kwargs.refresh_state

\* lines 204-206: the keyword arguments of a call
Kwargs(targets, action, refresh_state) ==
    [targets |-> targets, action |-> action, refresh_state |-> refresh_state,
     tf_command |-> <<>>, tf_plan |-> "unset", ret |-> "none"]

NumInvalid(trace) ==
    Cardinality({i \in DOMAIN trace :
        trace[i].ev = "raw_input" /\ trace[i].args[1] \notin required_responses})

\* a call of tf_runner(**kwargs), to return to position retpc; log1 is the log
\* of the caller at the call
CallTfRunner(targets, action, refresh_state, retpc, log1) ==
    /\ tf' = Kwargs(targets, action, refresh_state)
    /\ calltrace' = <<>>
    /\ stack' = <<retpc>> \o stack
    /\ pc' = "tf_runner"
    /\ log' = Append(log1, [ev |-> "tf_runner", args |-> targets, ok |-> TRUE,
                            action |-> action, refresh_state |-> refresh_state])

\* 'return ret' of tf_runner; tf1 is the locals, trace1 the trace at the return.
\* The log keeps how many 'yes' answers and apply/destroy commands the call had
ReturnTfRunner(ret, tf1, trace1) ==
    /\ tf' = [tf1 EXCEPT !.ret = ret]
    /\ calltrace' = Append(trace1, [ev |-> "return", args |-> <<ret>>, ok |-> ret = "True"])
    /\ pc' = Head(stack)
    /\ stack' = Tail(stack)
    /\ log' = Append(log, [ev |-> "tf_return", args |-> <<ret>>, ok |-> ret = "True",
                           yes |-> Cardinality({i \in DOMAIN trace1 :
                                       trace1[i].ev = "raw_input" /\ trace1[i].args[1] = "yes"}),
                           mutates |-> Cardinality({i \in DOMAIN trace1 :
                                       /\ trace1[i].ev = "run_command"
                                       /\ trace1[i].args[2] \in {"apply", "destroy"}})])

\* lines 204-216: the plan command is built, the remote state is configured
TfRunner ==
    /\ pc = "tf_runner"
    /\ \E ok \in RunOutcomes :
        /\ tf' = [tf EXCEPT !.tf_command = PlanCommand(tf.targets, tf.action)]
        /\ calltrace' = IF RefreshesState(tf)
                        THEN Append(calltrace, Cmd(remote_state_opts(CONFIG), ok))
                        ELSE calltrace
        /\ pc' = "tf_get"
    /\ UNCHANGED <<options, CONFIG, disk, stack, log, files, exc, calls>>

\* lines 218-219: terraform get; its result is dropped
TfGet ==
    /\ pc = "tf_get"
    /\ \E ok \in RunOutcomes :
        calltrace' = Append(calltrace, Cmd(<<"terraform", "get">>, ok))
    /\ pc' = "tf_plan"
    /\ UNCHANGED <<options, CONFIG, disk, stack, tf, log, files, exc, calls>>

\* lines 221-224: terraform plan; a plan that failed returns False, a plan that
\* succeeded calls continue_prompt()
TfPlan ==
    /\ pc = "tf_plan"
    /\ \E ok \in RunOutcomes :
        LET planned == Append(calltrace, Cmd(tf.tf_command, ok)) IN
        IF PromptsAfterPlan(ok)
        THEN /\ calltrace' = Append(planned, Ev("continue_prompt", <<>>))
             /\ pc' = "continue_prompt"
             /\ UNCHANGED <<tf, stack, log>>
        ELSE ReturnTfRunner("False", [tf EXCEPT !.tf_plan = "False"], planned)
    /\ UNCHANGED <<options, CONFIG, disk, files, exc, calls>>

\* lines 157-161: one raw_input() of continue_prompt; the loop goes on until the
\* response is one of required_responses. Line 223: a False result returns False
ContinuePrompt ==
    /\ pc = "continue_prompt"
    /\ \E response \in Responses :
        LET read == Append(calltrace, Ev("raw_input", <<response>>)) IN
        /\ response \notin required_responses => NumInvalid(calltrace) < MaxInvalid
        /\ IF response \notin required_responses
           THEN /\ calltrace' = read
                /\ UNCHANGED <<pc, tf, stack, log>>
           ELSE IF PromptResult(response)
           THEN /\ calltrace' = read
                /\ tf' = [tf EXCEPT !.tf_plan = "True"]
                /\ pc' = "tf_apply"
                /\ UNCHANGED <<stack, log>>
           ELSE ReturnTfRunner("False", [tf EXCEPT !.tf_plan = "False"], read)
    /\ UNCHANGED <<options, CONFIG, disk, files, exc, calls>>

\* a tf_runner that runs a failed apply/destroy command again
TfApplyRetry ==
    /\ pc = "tf_apply"
    /\ \E ok \in RunOutcomes :
        LET tf_command == MutateCommand(tf.tf_command, tf.action) IN
        IF ok \/ Len(calltrace) > 8
        THEN ReturnTfRunner("True", [tf EXCEPT !.tf_command = tf_command],
                            Append(calltrace, Cmd(tf_command, ok)))
        ELSE /\ calltrace' = Append(calltrace, Cmd(tf_command, ok))
             /\ UNCHANGED <<pc, tf, stack, log>>
    /\ UNCHANGED <<options, CONFIG, disk, files, exc, calls>>

\* lines 226-239: the plan command becomes apply or destroy, is run, and True is
\* returned whatever its result
TfApply ==
    /\ pc = "tf_apply"
    /\ \E ok \in RunOutcomes :
        LET tf_command == MutateCommand(tf.tf_command, tf.action) IN
        ReturnTfRunner("True", [tf EXCEPT !.tf_command = tf_command],
                       Append(calltrace, Cmd(tf_command, ok)))
    /\ UNCHANGED <<options, CONFIG, disk, files, exc, calls>>

----------------------------------------------------------------------------
(* The commands *)

\* targets that name the stream_alert module whatever module was asked for
ModuleTargetsBad(name, cfg) ==
    [i \in DOMAIN cfg.clusters |-> "module.stream_alert_" \o cfg.clusters[i]]
\* lines 70-71, 100-101, 315-316: the module <name>_<cluster> of every cluster
ModuleTargets(name, cfg) ==
    [i \in DOMAIN cfg.clusters |-> "module." \o name \o "_" \o cfg.clusters[i]]

\* line 125: refresh_state of the first tf_runner call of 'terraform init'
BootstrapRefreshState == FALSE

\* a 'terraform destroy' that leaves refresh_state at its default
DestroyRefreshStateBad == TRUE
\* line 141: refresh_state of the tf_runner call of 'terraform destroy'
DestroyRefreshState == FALSE

\* lines 118-124
init_targets ==
    <<"aws_s3_bucket.lambda_source", "aws_s3_bucket.integration_testing",
      "aws_s3_bucket.terraform_remote_state", "aws_kms_key.stream_alert_secrets",
      "aws_kms_alias.stream_alert_secrets">>

RECURSIVE GenerateLoop(_, _)
\* lines 288-299: the clusters written before one named 'main' is met
GenerateLoop(clusters, written) ==
    IF clusters = <<>> THEN [written |-> written, raised |-> "none"]
    ELSE IF Head(clusters) = "main"
    THEN [written |-> written, raised |-> "InvalidClusterName"]
    ELSE GenerateLoop(Tail(clusters),
                      written \cup {"terraform/" \o Head(clusters) \o ".tf"})

\* generate_tf_files(), lines 281-299
generate_tf_files(cfg) == GenerateLoop(cfg.clusters, {})

\* a deploy() that builds the alert processor before the rule processor
DeployBuildsBad(processor) ==
    IF processor = "rule" THEN <<"rule">>
    ELSE IF processor = "alert" THEN <<"alert">>
    ELSE IF processor = "all" THEN <<"alert", "rule">>
    ELSE <<>>
\* lines 332-340: the packages deploy() builds for a processor, in order
DeployBuilds(processor) ==
    IF processor = "rule" THEN <<"rule">>
    ELSE IF processor = "alert" THEN <<"alert">>
    ELSE IF processor = "all" THEN <<"rule", "alert">>
    ELSE <<>>

\* the build events of deploy(): every package up to the first whose
\* create_and_upload() raises (failed = 0: none raises)
BuildEvents(builds, failed) ==
    [i \in 1..(IF failed = 0 THEN Len(builds) ELSE failed) |->
        [ev |-> "create_and_upload", args |-> <<builds[i]>>, ok |-> i # failed]]

\* deploy(options), lines 302-342, from position retpc on log log1
Deploy(processor, retpc, log1) ==
    \E failed \in 0..Len(DeployBuilds(processor)) :
        LET log2 == log1 \o BuildEvents(DeployBuilds(processor), failed) IN
        IF failed = 0
        THEN /\ CallTfRunner(ModuleTargets("stream_alert", CONFIG), None, TRUE, retpc, log2)
             /\ UNCHANGED exc
        ELSE /\ log' = log2
             /\ pc' = "crashed"
             /\ exc' = "PackageError"
             /\ UNCHANGED <<stack, tf, calltrace>>

\* cli_runner, lines 41-60
CliRunner ==
    /\ pc = "cli_runner"
    /\ pc' = IF options.command = "lambda" THEN "lambda_runner"
             ELSE IF options.command = "terraform" THEN "terraform_check"
             ELSE "done"
    /\ UNCHANGED <<options, CONFIG, disk, stack, tf, calltrace, log, files, exc, calls>>

\* lambda_runner, lines 65-66
LambdaDeploy ==
    /\ pc = "lambda_runner"
    /\ options.subcommand = "deploy"
    /\ Deploy(options.processor, "done", Append(log, Ev("deploy", <<options.processor>>)))
    /\ UNCHANGED <<options, CONFIG, disk, files, calls>>

\* lambda_runner, lines 68-72
LambdaRollback ==
    /\ pc = "lambda_runner"
    /\ options.subcommand = "rollback"
    /\ LET r == rollback(CONFIG)
           log1 == Append(log, [ev |-> "rollback", args |-> <<>>, ok |-> r.raised = "none"])
       IN /\ CONFIG' = r.config
          /\ IF r.raised = "none"
             THEN /\ CallTfRunner(ModuleTargets("stream_alert", r.config), None, TRUE,
                                  "done", log1)
                  /\ UNCHANGED exc
             ELSE /\ log' = log1
                  /\ pc' = "crashed"
                  /\ exc' = r.raised
                  /\ UNCHANGED <<stack, tf, calltrace>>
    /\ UNCHANGED <<options, disk, files, calls>>

\* lambda_runner, lines 74-75
LambdaTest ==
    /\ pc = "lambda_runner"
    /\ options.subcommand = "test"
    /\ log' = Append(log, Ev("stream_alert_test", <<>>))
    /\ pc' = "done"
    /\ UNCHANGED <<options, CONFIG, disk, stack, tf, calltrace, files, exc, calls>>


\* terraform_check, lines 78-85, called on line 91: the result of run_command is
\* dropped, and the subcommand follows whether or not 'terraform version' succeeded
TerraformCheck ==
    /\ pc = "terraform_check"
    /\ \E ok \in RunOutcomes :
        /\ log' = Append(log, Cmd(<<"terraform", "version">>, ok))
        /\ pc' = "terraform_runner"
    /\ UNCHANGED <<options, CONFIG, disk, stack, tf, calltrace, files, exc, calls>>

\* terraform_runner, lines 96-104
TerraformBuild ==
    /\ pc = "terraform_runner"
    /\ options.subcommand = "build"
    /\ IF options.target # NoTarget
       THEN CallTfRunner(ModuleTargets(options.target, CONFIG), None, TRUE, "done", log)
       ELSE CallTfRunner(<<>>, None, TRUE, "done", log)
    /\ UNCHANGED <<options, CONFIG, disk, files, exc, calls>>

\* terraform_runner, lines 107-108
TerraformGenerate ==
    /\ pc = "terraform_runner"
    /\ options.subcommand = "generate"
    /\ LET g == generate_tf_files(CONFIG) IN
        /\ files' = files \cup g.written
        /\ log' = Append(log, [ev |-> "generate_tf_files", args |-> <<>>,
                               ok |-> g.raised = "none"])
        /\ exc' = g.raised
        /\ pc' = IF g.raised = "none" THEN "done" ELSE "crashed"
    /\ UNCHANGED <<options, CONFIG, disk, stack, tf, calltrace, calls>>

\* terraform_runner, lines 111-125: the cluster files, then the first tf_runner
TerraformInit ==
    /\ pc = "terraform_runner"
    /\ options.subcommand = "init"
    /\ LET g == generate_tf_files(CONFIG)
           log1 == Append(log, [ev |-> "generate_tf_files", args |-> <<>>,
                                ok |-> g.raised = "none"])
       IN /\ files' = files \cup g.written
          /\ exc' = g.raised
          /\ IF g.raised = "none"
             THEN CallTfRunner(init_targets, None, BootstrapRefreshState, "init_deploy", log1)
             ELSE /\ log' = log1
                  /\ pc' = "crashed"
                  /\ UNCHANGED <<stack, tf, calltrace>>
    /\ UNCHANGED <<options, CONFIG, disk, calls>>

\* terraform_runner, lines 127-131: whatever the first tf_runner returned, the
\* remote state is set up and both functions are deployed
InitDeploy ==
    /\ pc = "init_deploy"
    /\ \E ok \in RunOutcomes :
        Deploy("all", "init_remainder",
               log \o <<Cmd(remote_state_opts(CONFIG), ok), Ev("deploy", <<"all">>)>>)
    /\ UNCHANGED <<options, CONFIG, disk, files, calls>>

\* terraform_runner, lines 133-134: whatever deploy's tf_runner returned
InitRemainder ==
    /\ pc = "init_remainder"
    /\ CallTfRunner(<<>>, None, TRUE, "done", log)
    /\ UNCHANGED <<options, CONFIG, disk, files, exc, calls>>

\* terraform_runner, lines 139-141
TerraformDestroy ==
    /\ pc = "terraform_runner"
    /\ options.subcommand = "destroy"
    /\ \E ok \in RunOutcomes :
        CallTfRunner(<<>>, "destroy", DestroyRefreshState, "done",
                     Append(log, Cmd(<<"terraform", "remote", "config", "-disable">>, ok)))
    /\ UNCHANGED <<options, CONFIG, disk, files, exc, calls>>

\* lines 249-255: the lookups for one cluster, in the order they are evaluated;
\* TRUE when one of them raises KeyError
StatusLookupFails(cfg, cluster) ==
    \E key \in {"lambda_settings", "lambda_function_prod_versions", "kinesis_settings"} :
        ~HasKey(cfg, key) \/ cluster \notin DOMAIN GetItem(cfg, key)

RECURSIVE StatusLoop(_, _)
\* lines 245-257: the clusters whose header was printed, and what was raised
StatusLoop(cfg, i) ==
    IF i > Len(cfg.clusters) THEN [printed |-> cfg.clusters, raised |-> "none"]
    ELSE IF StatusLookupFails(cfg, cfg.clusters[i])
    THEN [printed |-> SubSeq(cfg.clusters, 1, i), raised |-> "KeyError"]
    ELSE StatusLoop(cfg, i + 1)

\* status(), lines 242-257, up to 'terraform output'
status(cfg) == StatusLoop(cfg, 1)

\* terraform_runner, lines 144-145, and status(), lines 242-260
TerraformStatus ==
    /\ pc = "terraform_runner"
    /\ options.subcommand = "status"
    /\ LET s == status(CONFIG) IN
       IF s.raised = "none"
       THEN /\ \E ok \in RunOutcomes :
                log' = log \o <<Ev("print", s.printed), Cmd(<<"terraform", "output">>, ok)>>
            /\ pc' = "done"
            /\ exc' = exc
       ELSE /\ log' = Append(log, Ev("print", s.printed))
            /\ pc' = "crashed"
            /\ exc' = s.raised
    /\ UNCHANGED <<options, CONFIG, disk, stack, tf, calltrace, files, calls>>

----------------------------------------------------------------------------
(* The process: one command on one configuration file *)

NoCall == Kwargs(<<>>, None, TRUE)

Init ==
    /\ options \in Options
    /\ IsConfigFile(options, disk)
    /\ CONFIG = disk
    /\ pc = "cli_runner"
    /\ stack = <<>>
    /\ tf = NoCall
    /\ calltrace = <<>>
    /\ log = <<>>
    /\ files = {}
    /\ exc = "none"
    /\ calls = 0

Next ==
    \/ CliRunner
    \/ LambdaDeploy
    \/ LambdaRollback
    \/ LambdaTest
    \/ TerraformCheck
    \/ TerraformBuild
    \/ TerraformGenerate
    \/ TerraformInit
    \/ InitDeploy
    \/ InitRemainder
    \/ TerraformDestroy
    \/ TerraformStatus
    \/ TfRunner
    \/ TfGet
    \/ TfPlan
    \/ ContinuePrompt
    \/ TfApply

Spec == Init /\ [][Next]_vars

----------------------------------------------------------------------------
(* tf_runner called with any arguments *)

TfActions == {None, "destroy", "apply", ""}

TfTargets(cfg) ==
    {<<>>, init_targets, ModuleTargets("stream_alert", cfg), ModuleTargets("kinesis", cfg)}

\* a direct call tf_runner(targets=..., action=..., refresh_state=...)
TfCall ==
    /\ pc = "call_tf_runner"
    /\ \E targets \in TfTargets(CONFIG), action \in TfActions, refresh_state \in BOOLEAN :
        CallTfRunner(targets, action, refresh_state, "done", log)
    /\ UNCHANGED <<options, CONFIG, disk, files, exc, calls>>

DirectCall == [command |-> "", subcommand |-> "", target |-> NoTarget, processor |-> ""]

TfInit ==
    /\ options = DirectCall
    /\ IsConfigFile(options, disk)
    /\ CONFIG = disk
    /\ pc = "call_tf_runner"
    /\ stack = <<>>
    /\ tf = NoCall
    /\ calltrace = <<>>
    /\ log = <<>>
    /\ files = {}
    /\ exc = "none"
    /\ calls = 0

TfNext == TfCall \/ TfRunner \/ TfGet \/ TfPlan \/ ContinuePrompt \/ TfApply

TfSpec == TfInit /\ [][TfNext]_vars

----------------------------------------------------------------------------
(* rollback() called any number of times on one configuration object *)

RollbackCall ==
    /\ pc = "call_rollback"
    /\ calls < MaxCalls
    /\ LET r == rollback(CONFIG) IN
        /\ CONFIG' = r.config
        /\ exc' = r.raised
        /\ log' = <<[ev |-> "rollback", args |-> <<>>, ok |-> r.raised = "none"]>>
    /\ calls' = calls + 1
    /\ UNCHANGED <<options, disk, pc, stack, tf, calltrace, files>>

RollbackInit ==
    /\ options = DirectCall
    /\ \E cs \in ClusterSeqs, p \in Ptrs, has_template \in BOOLEAN :
        \E t \in [Range(cs) -> Ptrs] :
            /\ ~has_template => t = UniformTable(cs, LATEST)
            /\ disk = ConfigFile(cs, p, has_template, t)
    /\ CONFIG = disk
    /\ pc = "call_rollback"
    /\ stack = <<>>
    /\ tf = NoCall
    /\ calltrace = <<>>
    /\ log = <<>>
    /\ files = {}
    /\ exc = "none"
    /\ calls = 0

RollbackSpec == RollbackInit /\ [][RollbackCall]_vars


----------------------------------------------------------------------------
(* Reading the traces *)

IsRefresh(e) == IsCmd(e, "remote") /\ Len(e.args) >= 4 /\ e.args[4] = "-backend=s3"
IsGet(e) == IsCmd(e, "get")
IsPlan(e) == IsCmd(e, "plan")
IsMutate(e) == IsCmd(e, "apply") \/ IsCmd(e, "destroy")
IsPrompt(e) == e.ev = "continue_prompt"
IsAnswer(e, response) == e.ev = "raw_input" /\ e.args[1] = response

Some(trace, P(_)) == \E i \in DOMAIN trace : P(trace[i])
Count(trace, P(_)) == Cardinality({i \in DOMAIN trace : P(trace[i])})

AnsweredNo(e) == IsAnswer(e, "no")
AnsweredYes(e) == IsAnswer(e, "yes")
FailedPlan(e) == IsPlan(e) /\ ~e.ok
FailedGet(e) == IsGet(e) /\ ~e.ok
FailedVersion(e) == IsCmd(e, "version") /\ ~e.ok

\* C1: in a call of tf_runner in which the operator answered 'no', no apply or
\* destroy command is issued and the call returns False
C1_RejectedNeverMutates ==
    Some(calltrace, AnsweredNo) =>
        /\ ~Some(calltrace, IsMutate)
        /\ tf.ret = "False"
        /\ pc # "tf_apply"

C1_Witness ==
    /\ Some(calltrace, AnsweredNo)
    /\ tf.ret = "False"
    /\ Some(calltrace, IsPlan)

\* C2: a call of tf_runner whose plan command failed never invokes
\* continue_prompt, issues no apply or destroy and returns False; a plan command
\* that succeeded is followed at once by the one invocation of continue_prompt
C2_PlanGatesPrompt ==
    /\ Some(calltrace, FailedPlan) =>
        /\ ~Some(calltrace, IsPrompt)
        /\ Count(calltrace, LAMBDA e : e.ev = "raw_input") = 0
        /\ ~Some(calltrace, IsMutate)
        /\ tf.ret = "False"
    /\ \A i \in DOMAIN calltrace :
        IsPlan(calltrace[i]) /\ calltrace[i].ok =>
            /\ i < Len(calltrace)
            /\ IsPrompt(calltrace[i + 1])
            /\ Count(calltrace, IsPrompt) = 1

C2_Witness ==
    /\ Some(calltrace, FailedPlan)
    /\ tf.ret = "False"
    /\ pc = "done"

\* the place of an event in the cycle of tf_runner
Rank(e) ==
    IF IsRefresh(e) THEN 1
    ELSE IF IsGet(e) THEN 2
    ELSE IF IsPlan(e) THEN 3
    ELSE IF IsPrompt(e) THEN 4
    ELSE IF e.ev = "raw_input" THEN 5
    ELSE IF IsMutate(e) THEN 6
    ELSE IF e.ev = "return" THEN 7
    ELSE 0

\* C3: the events of a call of tf_runner come in the order state-backend
\* configuration (only when refresh_state is set, and then first), terraform
\* get, plan, prompt, apply/destroy; apply/destroy only after a 'yes' of the
\* same call, the prompt only after the plan, the plan only after the get
C3_CycleOrder ==
    /\ \A i, j \in DOMAIN calltrace :
        i < j => \/ Rank(calltrace[i]) < Rank(calltrace[j])
                 \/ Rank(calltrace[i]) = 5 /\ Rank(calltrace[j]) = 5
    /\ \A i \in DOMAIN calltrace : Rank(calltrace[i]) # 0
    /\ Some(calltrace, IsRefresh) => tf.refresh_state
    /\ tf.refresh_state /\ calltrace # <<>> => IsRefresh(calltrace[1])
    /\ \A j \in DOMAIN calltrace :
        /\ IsMutate(calltrace[j]) => \E i \in 1..(j - 1) : AnsweredYes(calltrace[i])
        /\ Rank(calltrace[j]) \in {4, 5} =>
              \E i \in 1..(j - 1) : IsPlan(calltrace[i]) /\ calltrace[i].ok
        /\ IsPlan(calltrace[j]) => \E i \in 1..(j - 1) : IsGet(calltrace[i])

C3_Witness ==
    /\ tf.ret = "True"
    /\ tf.refresh_state
    /\ Some(calltrace, IsRefresh)
    /\ Some(calltrace, IsMutate)
    /\ Count(calltrace, LAMBDA e : e.ev = "raw_input") > 1

\* C4: tf_runner returns True only when every command of the cycle, the final
\* apply/destroy included, succeeded, and a call that returned False has
\* issued no apply/destroy
C4_TrueOnlyOnSuccess ==
    /\ tf.ret = "True" => ~Some(calltrace, LAMBDA e : IsMutate(e) /\ ~e.ok)
    /\ tf.ret = "False" => ~Some(calltrace, IsMutate)

\* C5: a call of tf_runner whose 'terraform get' failed issues no plan, shows
\* no prompt, issues no apply/destroy and runs 'terraform get' once
C5_FailedGetAborts ==
    Some(calltrace, FailedGet) =>
        /\ ~Some(calltrace, IsPlan)
        /\ ~Some(calltrace, IsPrompt)
        /\ ~Some(calltrace, IsMutate)
        /\ Count(calltrace, IsGet) = 1

\* C6: a terraform subcommand whose 'terraform version' check failed does
\* nothing more: no other command, no cluster file, no prompt, no tf_runner,
\* and the process does not end normally
C6_FailedCheckAborts ==
    Some(log, FailedVersion) =>
        /\ Count(log, LAMBDA e : e.ev = "run_command") = 1
        /\ ~Some(calltrace, LAMBDA e : e.ev = "run_command")
        /\ ~Some(calltrace, IsPrompt)
        /\ files = {}
        /\ pc # "done"


\* the pointer one rollback() is to leave where p was: '$LATEST' and 1 stay,
\* a number above 1 goes down by one
RolledBack(p, q) ==
    IF p = LATEST THEN q = LATEST
    ELSE IF int(p) = 1 THEN q = p
    ELSE q # LATEST /\ int(q) = int(p) - 1

PointerKeys == {FormattedKey(FunctionKinds[i]) : i \in DOMAIN FunctionKinds}

\* C7: after one call of rollback(), the rule_processor and alert_processor
\* pointer of every cluster is the pointer before the call, rolled back once
C7_RollbackDecrementsOnce ==
    calls = 1 =>
        \A k \in PointerKeys : \A c \in Range(CONFIG.clusters) :
            RolledBack(disk.versions[k][c], CONFIG.versions[k][c])

ValidPointers(cfg) ==
    \A k \in DOMAIN cfg.versions : \A c \in DOMAIN cfg.versions[k] :
        cfg.versions[k][c] = LATEST \/ int(cfg.versions[k][c]) >= 1

NeverRaised(old, new) ==
    /\ DOMAIN new.versions = DOMAIN old.versions
    /\ \A k \in DOMAIN old.versions : \A c \in DOMAIN old.versions[k] :
        IF old.versions[k][c] = LATEST THEN new.versions[k][c] = LATEST
        ELSE /\ new.versions[k][c] # LATEST
             /\ int(new.versions[k][c]) <= int(old.versions[k][c])

\* C8: through any number of calls of rollback(), every numeric pointer of the
\* configuration stays at 1 or more and never goes up, and every '$LATEST'
\* pointer stays '$LATEST'
C8_PointersStayValid ==
    /\ [](ValidPointers(CONFIG) /\ NeverRaised(disk, CONFIG))
    /\ [][NeverRaised(CONFIG, CONFIG')]_vars

C8_Witness ==
    /\ calls >= 2
    /\ exc = "none"
    /\ \E c \in Range(CONFIG.clusters) :
        /\ disk.versions["{}_versions"][c] # LATEST
        /\ int(disk.versions["{}_versions"][c]) >= 3
        /\ int(CONFIG.versions["{}_versions"][c]) = 1

\* C9: when the process of 'lambda rollback' ends, the configuration file holds
\* every version pointer of the in-memory configuration
C9_PointersFlushedAtExit ==
    pc \in {"done", "crashed"} => disk.versions = CONFIG.versions

\* the events of log strictly between positions d and t
Between(d, t) == SubSeq(log, d + 1, t - 1)

IsTfCall(e) == e.ev = "tf_runner"
IsBuild(e) == e.ev = "create_and_upload"

\* the builds the selector of deploy stands for
SelectedBuilds(processor) ==
    CASE processor = "all" -> <<"rule", "alert">>
      [] processor = "rule" -> <<"rule">>
      [] processor = "alert" -> <<"alert">>

\* the stream_alert module of every configured cluster
AllClusterTargets(targets) ==
    /\ Len(targets) = Len(CONFIG.clusters)
    /\ \A i \in DOMAIN targets : targets[i] = "module.stream_alert_" \o CONFIG.clusters[i]

\* C10: the tf_runner call of a deploy with selector all, rule or alert comes
\* right after the builds of the selector (rule, then alert, for all), has the
\* stream_alert module of every cluster as its targets, and is the only
\* tf_runner call of 'lambda deploy'
C10_DeployBuildsThenApplies ==
    /\ \A d \in DOMAIN log :
        log[d].ev = "deploy" /\ log[d].args[1] \in {"all", "rule", "alert"} =>
            /\ \A t \in (d + 1)..Len(log) :
                IsTfCall(log[t]) /\ ~Some(Between(d, t), IsTfCall) =>
                    /\ Between(d, t) =
                          [i \in DOMAIN SelectedBuilds(log[d].args[1]) |->
                              [ev |-> "create_and_upload",
                               args |-> <<SelectedBuilds(log[d].args[1])[i]>>,
                               ok |-> TRUE]]
                    /\ AllClusterTargets(log[t].args)
            /\ \A b \in (d + 1)..Len(log) :
                IsBuild(log[b]) => ~Some(Between(d, b), IsTfCall)
    /\ options.subcommand = "deploy" /\ options.processor \in {"all", "rule", "alert"} =>
        /\ Count(log, IsTfCall) <= 1
        /\ pc = "done" => Count(log, IsTfCall) = 1
        /\ pc # "cli_runner" /\ pc # "lambda_runner" /\ exc = "none" =>
              Count(log, IsTfCall) = 1

C10_Witness ==
    /\ options.subcommand = "deploy"
    /\ options.processor = "all"
    /\ Len(CONFIG.clusters) = 2
    /\ pc = "done"
    /\ Count(log, IsBuild) = 2
    /\ Count(log, IsTfCall) = 1


IsGenerate(e) == e.ev = "generate_tf_files"

\* C11: a deploy with a selector other than rule, alert and all ends in an
\* error: no package is built, tf_runner is not called and the process does
\* not end normally
C11_UnknownSelectorRejected ==
    options.subcommand = "deploy" /\ options.processor \notin {"rule", "alert", "all"} =>
        /\ ~Some(log, IsBuild)
        /\ ~Some(log, IsTfCall)
        /\ pc # "done"

\* C12: generate_tf_files() on a configuration with a cluster named 'main'
\* raises InvalidClusterName and writes no file, wherever 'main' comes in the
\* order of the clusters (in a run whose 'terraform version' check succeeded)
C12_ReservedNameWritesNothing ==
    (/\ Some(log, IsGenerate)
     /\ "main" \in Range(CONFIG.clusters)
     /\ ~Some(log, FailedVersion))
    => (/\ exc = "InvalidClusterName"
        /\ files = {})


\* the responses read so far by the continue_prompt of the call
Inputs == SelectSeq(calltrace, LAMBDA e : e.ev = "raw_input")

IsYesOrNo(e) == e.args[1] = "yes" \/ e.args[1] = "no"

\* C13: continue_prompt goes on reading while no response read is exactly 'yes'
\* or 'no'; the first such response is the last one read, and the result is
\* True for 'yes' and False for 'no', however many other responses came first
C13_PromptLoop ==
    Some(calltrace, IsPrompt) =>
        /\ pc = "continue_prompt" <=> ~Some(Inputs, IsYesOrNo)
        /\ \A i \in DOMAIN Inputs : IsYesOrNo(Inputs[i]) => i = Len(Inputs)
        /\ Some(Inputs, AnsweredYes) => tf.tf_plan = "True"
        /\ Some(Inputs, AnsweredNo) => tf.tf_plan = "False" /\ tf.ret = "False"
        /\ ~Some(Inputs, IsYesOrNo) => tf.tf_plan = "unset" /\ tf.ret = "none"

C13_Witness ==
    /\ Len(Inputs) >= 2
    /\ Inputs[1].args[1] = "Yes"
    /\ AnsweredYes(Inputs[Len(Inputs)])
    /\ tf.tf_plan = "True"


\* the plan commands issued by the call
Plans == SelectSeq(calltrace, IsPlan)
\* the apply/destroy commands issued by the call
Mutates == SelectSeq(calltrace, IsMutate)

PlanPrefix == <<"terraform", "plan", "-var-file=../variables.json">>

IsBuildCommand == options.command = "terraform" /\ options.subcommand = "build"

\* C14 as claimed: the plan of 'terraform build --target=m' carries one flag
\* -target=<m>_<cluster> per cluster, in the order of the clusters, and no other
C14_BareTargetFlags ==
    IsBuildCommand /\ options.target # NoTarget /\ Plans # <<>> =>
        Plans[1].args = PlanPrefix \o
            [i \in DOMAIN CONFIG.clusters |->
                "-target=" \o options.target \o "_" \o CONFIG.clusters[i]]

\* C14, amended: the plan of 'terraform build --target=m' carries exactly one
\* flag -target=module.<m>_<cluster> per cluster and no other, the plan of
\* 'terraform build' without a target carries no -target flag, and a 'yes'
\* leads to exactly one apply command
C14_ModuleTargetFlags ==
    IsBuildCommand =>
        /\ Len(Plans) <= 1
        /\ Plans # <<>> /\ options.target # NoTarget =>
              Plans[1].args = PlanPrefix \o
                  [i \in DOMAIN CONFIG.clusters |->
                      "-target=module." \o options.target \o "_" \o CONFIG.clusters[i]]
        /\ Plans # <<>> /\ options.target = NoTarget => Plans[1].args = PlanPrefix
        /\ Some(calltrace, AnsweredYes) /\ pc = "done" =>
              /\ Len(Mutates) = 1
              /\ Mutates[1].args[2] = "apply"
        /\ Len(Mutates) <= 1

C14_Witness ==
    /\ IsBuildCommand
    /\ options.target = "kinesis"
    /\ CONFIG.clusters = <<"prod", "staging">>
    /\ Some(calltrace, AnsweredYes)
    /\ pc = "done"
    /\ Len(Mutates) = 1


\* C15: 'lambda rollback' calls tf_runner exactly once, after rollback() has
\* gone through every cluster, with the stream_alert module of every cluster
\* as its targets
C15_RollbackThenOneApply ==
    options.subcommand = "rollback" /\ pc \notin {"cli_runner", "lambda_runner"} =>
        /\ Len(log) >= 2
        /\ log[1].ev = "rollback" /\ log[1].ok
        /\ IsTfCall(log[2]) /\ AllClusterTargets(log[2].args)
        /\ Count(log, IsTfCall) = 1


IsDisable(e) == IsCmd(e, "remote") /\ Len(e.args) >= 4 /\ e.args[4] = "-disable"

\* C16: when the operator answers 'no', the command has changed nothing: the
\* remote state configuration has not been disabled, no package has been built
\* and published, and no version pointer of the configuration has changed
C16_RejectedChangesNothing ==
    Some(calltrace, AnsweredNo) =>
        /\ ~Some(log, IsDisable)
        /\ ~Some(log, IsBuild)
        /\ CONFIG.versions = disk.versions


\* C17: the apply/destroy command of a call is its plan command with the verb
\* replaced: the same -var-file option and the same -target flags in the same
\* order; the plan carries -destroy exactly when the action is 'destroy'; the
\* verb is 'destroy' for the action 'destroy' and 'apply' when no action is
\* given (None or an empty string); the apply/destroy command never carries
\* -destroy
C17_MutateIsPlanWithVerb ==
    /\ \A p \in DOMAIN Plans :
        LET P == Plans[p].args IN
        /\ "-destroy" \in Range(P) <=> tf.action = "destroy"
        /\ Len(P) = 3 + Len(tf.targets) + (IF tf.action = "destroy" THEN 1 ELSE 0)
        /\ P[3] = "-var-file=../variables.json"
        /\ \A i \in DOMAIN tf.targets : P[3 + i] = "-target=" \o tf.targets[i]
    /\ \A m \in DOMAIN Mutates :
        LET M == Mutates[m].args
            P == Plans[1].args
        IN /\ Plans # <<>>
           /\ "-destroy" \notin Range(M)
           /\ Len(M) = 3 + Len(tf.targets)
           /\ M[1] = P[1]
           /\ \A i \in 3..Len(M) : M[i] = P[i]
           /\ tf.action = "destroy" => M[2] = "destroy"
           /\ ~Truthy(tf.action) => M[2] = "apply"

C17_Witness ==
    /\ tf.action = "destroy"
    /\ Len(tf.targets) = 2
    /\ Mutates # <<>>
    /\ Mutates[1].args[2] = "destroy"
    /\ tf.ret = "True"


\* the external commands issued by the call
Commands == SelectSeq(calltrace, LAMBDA e : e.ev = "run_command")

\* C18: a call of tf_runner issues the state-backend configuration command as
\* its first external command exactly when refresh_state is set, and at no
\* other place; the first tf_runner call of 'terraform init' (the five init
\* targets) and the call of 'terraform destroy' never issue it; in 'terraform
\* init' it is not issued before the first tf_runner call has returned
C18_RefreshOnlyWhenAsked ==
    /\ Commands # <<>> => (IsRefresh(Commands[1]) <=> tf.refresh_state)
    /\ \A i \in DOMAIN Commands : IsRefresh(Commands[i]) => i = 1
    /\ options.subcommand = "init" /\ tf.targets = init_targets =>
          ~Some(calltrace, IsRefresh) /\ ~tf.refresh_state
    /\ options.subcommand = "destroy" =>
          ~Some(calltrace, IsRefresh) /\ (Some(log, IsTfCall) => ~tf.refresh_state)
    /\ options.subcommand = "init" /\ (Some(log, IsRefresh) \/ Some(calltrace, IsRefresh)) =>
          Some(log, LAMBDA e : e.ev = "tf_return")

C18_Witness ==
    /\ options.subcommand = "init"
    /\ pc = "done"
    /\ Some(log, IsRefresh)
    /\ Some(calltrace, IsRefresh)
    /\ Count(log, IsTfCall) = 3


RECURSIVE SumReturns(_, _)
\* the sum of field f ("yes" or "mutates") over the tf_runner calls that returned
SumReturns(l, f) ==
    IF l = <<>> THEN 0
    ELSE (IF Head(l).ev = "tf_return"
          THEN (IF f = "yes" THEN Head(l).yes ELSE Head(l).mutates)
          ELSE 0) + SumReturns(Tail(l), f)

InTfRunner == pc \in {"tf_runner", "tf_get", "tf_plan", "continue_prompt", "tf_apply"}

\* the 'yes' answers given, and the apply/destroy commands issued, by the
\* whole command so far
TotalYes == SumReturns(log, "yes") + (IF InTfRunner THEN Count(calltrace, AnsweredYes) ELSE 0)
TotalMutates == SumReturns(log, "mutates") + (IF InTfRunner THEN Count(calltrace, IsMutate) ELSE 0)

\* C19: a call of tf_runner issues terraform get, the plan and the apply/destroy
\* command at most once each, so a command that failed is not issued again,
\* and a whole command never issues more apply/destroy commands than it got
\* 'yes' answers
C19_NoRetry ==
    /\ Count(calltrace, IsGet) <= 1
    /\ Count(calltrace, IsPlan) <= 1
    /\ Count(calltrace, IsMutate) <= 1
    /\ \A i, j \in DOMAIN calltrace :
        /\ calltrace[i].ev = "run_command" /\ ~calltrace[i].ok
        /\ calltrace[j].ev = "run_command" /\ i # j
        => calltrace[i].args # calltrace[j].args
    /\ TotalMutates <= TotalYes

C19_Witness ==
    /\ options.subcommand = "init"
    /\ pc = "done"
    /\ TotalYes = 2
    /\ TotalMutates = 2
    /\ Some(calltrace, FailedPlan)
    /\ Count(log, LAMBDA e : e.ev = "tf_return" /\ e.mutates = 1) = 2


\* the first tf_runner call of the command returned False
BootstrapFailed ==
    \E i \in DOMAIN log :
        /\ log[i].ev = "tf_return" /\ ~log[i].ok
        /\ \A j \in 1..(i - 1) : log[j].ev # "tf_return"

\* C20: in 'terraform init', when the bootstrap tf_runner call returned False
\* (failed plan or a 'no'), the remote state is not configured, no package is
\* built or published and the remainder tf_runner call is not made
C20_InitStopsAfterFailedBootstrap ==
    options.subcommand = "init" /\ ~Some(log, FailedVersion) /\ BootstrapFailed =>
        /\ ~Some(log, IsRefresh)
        /\ ~Some(log, IsBuild)
        /\ Count(log, IsTfCall) = 1

====
